---- MODULE Spec2Model ----
(***************************************************************************)
(* A model of volpy/geometry.py: Line2D, Triangle and TriangularMesh.      *)
(*                                                                         *)
(* Numbers are exact rationals <<numerator, denominator>> in lowest terms   *)
(* with a positive denominator; <<0, 0>> stands for the non-finite value    *)
(* (sympy zoo / nan) that a division by a zero numpy scalar produces.       *)
(***************************************************************************)
EXTENDS Integers, Sequences, FiniteSets, TLC

(***************************************************************************)
(* Bounds of the model.                                                    *)
(***************************************************************************)
\* The points of a Triangle have x in 0..MaxX, y in 0..MaxY, z in -1..MaxZ.
\* A point cloud has 3..MaxPoints rows and is queried at the reference
\* levels 0..MaxRef.
MaxX == 2
MaxY == 1
MaxZ == 1
MaxPoints == 4
MaxRef == 1

(***************************************************************************)
(* Arithmetic of the values the code computes with.                        *)
(***************************************************************************)
Abs(n) == IF n < 0 THEN -n ELSE n

RECURSIVE GCD(_, _)
GCD(a, b) == IF b = 0 THEN a ELSE GCD(b, a % b)

NaN == <<0, 0>>

Rat(n, d) ==
    IF d = 0 THEN NaN
    ELSE LET g == GCD(Abs(n), Abs(d))
             s == IF d < 0 THEN -1 ELSE 1
         IN  <<(s * n) \div g, (s * d) \div g>>

R(n) == <<n, 1>>

IsFinite(r) == r[2] # 0

RAdd(a, b) ==
    IF ~IsFinite(a) \/ ~IsFinite(b) THEN NaN
    ELSE Rat(a[1] * b[2] + b[1] * a[2], a[2] * b[2])

RNeg(a) == IF ~IsFinite(a) THEN NaN ELSE <<-a[1], a[2]>>

RSub(a, b) == RAdd(a, RNeg(b))

RMul(a, b) ==
    IF ~IsFinite(a) \/ ~IsFinite(b) THEN NaN
    ELSE Rat(a[1] * b[1], a[2] * b[2])

RDiv(a, b) ==
    IF ~IsFinite(a) \/ ~IsFinite(b) THEN NaN
    ELSE Rat(a[1] * b[2], a[2] * b[1])

RAbs(a) == IF ~IsFinite(a) THEN NaN ELSE <<Abs(a[1]), a[2]>>

(***************************************************************************)
(* CartesianCoordinate: x, y, z; subtraction gives a vector; ordered by x. *)
(***************************************************************************)
CartesianCoordinate(x, y, z) == [x |-> x, y |-> y, z |-> z]

\* point_B - point_A is written sub(point_B, point_A).
sub(p, q) == <<p.x - q.x, p.y - q.y, p.z - q.z>>

lt(p, q) == p.x < q.x

\* numpy.cross of two 3-vectors.
cross(u, v) ==
    <<u[2] * v[3] - u[3] * v[2],
      u[3] * v[1] - u[1] * v[3],
      u[1] * v[2] - u[2] * v[1]>>

(***************************************************************************)
(* Line2D                                                                  *)
(***************************************************************************)
\* The value None of get_line_equation, and a line slope*x + linear_constant.
None == [defined |-> FALSE, slope |-> R(0), linear_constant |-> R(0)]

LineEq(slope, linear_constant) ==
    [defined |-> TRUE, slope |-> slope, linear_constant |-> linear_constant]

Line2D(point_A, point_B) == [point_A |-> point_A, point_B |-> point_B]

get_line_equation_y(self) ==
    IF self.point_B.y - self.point_A.y = 0
    THEN None
    ELSE LET slope == RDiv(R(self.point_B.y - self.point_A.y),
                           R(self.point_B.x - self.point_A.x))
             linear_constant ==
                 RAdd(RMul(RNeg(slope), R(self.point_A.x)), R(self.point_A.y))
         IN  LineEq(slope, linear_constant)

get_line_equation(self) ==
    IF self.point_B.x - self.point_A.x = 0
    THEN None
    ELSE LET slope == RDiv(R(self.point_B.y - self.point_A.y),
                           R(self.point_B.x - self.point_A.x))
             linear_constant ==
                 RAdd(RMul(RNeg(slope), R(self.point_A.x)), R(self.point_A.y))
         IN  LineEq(slope, linear_constant)

(***************************************************************************)
(* Triangle                                                                *)
(***************************************************************************)
Triangle(point_A, point_B, point_C) ==
    [point_A |-> point_A, point_B |-> point_B, point_C |-> point_C]

\* The z-component of the normal vector (B - A) x (C - B).
normal_vector(self) ==
    cross(sub(self.point_B, self.point_A), sub(self.point_C, self.point_B))

\* z = f(x, y) = p0 + px*x + py*y, from ((-a*(x-xo)-b*(y-yo))/c)+zo.
get_plane_equation(self) ==
    LET n  == normal_vector(self)
        a  == R(n[1])
        b  == R(n[2])
        c  == R(n[3])
        xo == R(self.point_A.x)
        yo == R(self.point_A.y)
        zo == R(self.point_A.z)
    IN  [px |-> RDiv(RNeg(a), c),
         py |-> RDiv(RNeg(b), c),
         p0 |-> RAdd(RDiv(RAdd(RMul(a, xo), RMul(b, yo)), c), zo)]

\* integrate(plane, (y, line_from, line_to), (x, from, to)): with the lines
\* f = f1*x + f0 and g = g1*x + g0, the inner integral over y is
\*   (p0 + px*x)*(g - f) + (py/2)*(g^2 - f^2) = c0 + c1*x + c2*x^2,
\* and the outer one its antiderivative F taken between the boundaries.
integrate(plane, line_from, line_to, outer_boundary_from, outer_boundary_to) ==
    LET f0 == line_from.linear_constant
        f1 == line_from.slope
        g0 == line_to.linear_constant
        g1 == line_to.slope
        d0 == RSub(g0, f0)
        d1 == RSub(g1, f1)
        h  == RDiv(plane.py, R(2))
        c0 == RAdd(RMul(plane.p0, d0),
                   RMul(h, RSub(RMul(g0, g0), RMul(f0, f0))))
        c1 == RAdd(RAdd(RMul(plane.p0, d1), RMul(plane.px, d0)),
                   RMul(plane.py, RSub(RMul(g0, g1), RMul(f0, f1))))
        c2 == RAdd(RMul(plane.px, d1),
                   RMul(h, RSub(RMul(g1, g1), RMul(f1, f1))))
        F(x) == RAdd(RMul(c0, R(x)),
                     RAdd(RMul(RDiv(c1, R(2)), R(x * x)),
                          RMul(RDiv(c2, R(3)), R(x * x * x))))
    IN  RSub(F(outer_boundary_to), F(outer_boundary_from))

compute_double_integral(plane, outer_boundary_from, outer_boundary_to, line_from_equation, line_to_equation) ==
    IF (~line_from_equation.defined) \/ (~line_to_equation.defined)
    THEN R(0)
    ELSE integrate(plane, line_from_equation, line_to_equation,
                   outer_boundary_from, outer_boundary_to)

\* list.sort() of three points with the x-only order: a stable insertion sort.
RECURSIVE insert(_, _)
insert(sorted, p) ==
    IF sorted = <<>> THEN <<p>>
    ELSE IF lt(p, sorted[Len(sorted)])
         THEN Append(insert(SubSeq(sorted, 1, Len(sorted) - 1), p),
                     sorted[Len(sorted)])
         ELSE Append(sorted, p)

sorted_points_unsorted(self) == <<self.point_A, self.point_B, self.point_C>>

sorted_points(self) ==
    insert(insert(insert(<<>>, self.point_A), self.point_B), self.point_C)

\* Triangle.get_volume, with its locals kept in the returned record.
Triangle_get_volume(self) ==
    LET plane  == get_plane_equation(self)
        points == sorted_points(self)
        sorted_point_A == points[1]
        sorted_point_B == points[2]
        sorted_point_C == points[3]
        lineAB == Line2D(sorted_point_A, sorted_point_B)
        lineBC == Line2D(sorted_point_B, sorted_point_C)
        lineAC == Line2D(sorted_point_A, sorted_point_C)
        eqAB == get_line_equation(lineAB)
        eqBC == get_line_equation(lineBC)
        eqAC == get_line_equation(lineAC)
        volume1 == compute_double_integral(plane,
                       sorted_point_A.x, sorted_point_B.x, eqAC, eqAB)
        volume2 == compute_double_integral(plane,
                       sorted_point_B.x, sorted_point_C.x, eqAC, eqBC)
        total_volume == RAdd(RAbs(volume1), RAbs(volume2))
    IN  [raised  |-> FALSE,
         value   |-> total_volume,
         points  |-> points,
         lineAB  |-> eqAB,
         lineBC  |-> eqBC,
         lineAC  |-> eqAC,
         volume1 |-> volume1,
         volume2 |-> volume2]

(***************************************************************************)
(* The collaborators of TriangularMesh.                                    *)
(***************************************************************************)
\* scipy.spatial.Delaunay over the (x, y) columns: the triples of rows whose
\* circumcircle holds no other row, rows and triples in ascending order.
Orient(a, b, c) == (b.x - a.x) * (c.y - a.y) - (b.y - a.y) * (c.x - a.x)

InCircle(a, b, c, d) ==
    LET ax == a.x - d.x
        ay == a.y - d.y
        bx == b.x - d.x
        by == b.y - d.y
        cx == c.x - d.x
        cy == c.y - d.y
        a2 == ax * ax + ay * ay
        b2 == bx * bx + by * by
        c2 == cx * cx + cy * cy
    IN  ax * (by * c2 - b2 * cy) - ay * (bx * c2 - b2 * cx)
        + a2 * (bx * cy - by * cx)

IsSimplex(t, i, j, k) ==
    /\ i < j /\ j < k
    /\ Orient(t[i], t[j], t[k]) # 0
    /\ \A l \in DOMAIN t \ {i, j, k} :
           InCircle(t[i], t[j], t[k], t[l]) * Orient(t[i], t[j], t[k]) <= 0

RECURSIVE SimplexSeq(_, _)
SimplexSeq(S, n) ==
    IF S = {} THEN <<>>
    ELSE LET key(s) == (s[1] * n + s[2]) * n + s[3]
             m == CHOOSE s \in S : \A u \in S : key(s) <= key(u)
         IN  <<m>> \o SimplexSeq(S \ {m}, n)

Delaunay(t) ==
    SimplexSeq({s \in (DOMAIN t) \X (DOMAIN t) \X (DOMAIN t) :
                    IsSimplex(t, s[1], s[2], s[3])}, Len(t) + 1)

\* print_progress(iteration, total, ...): the report made, and whether the
\* sink raises on it (sink is the iteration the sink fails at, 0 for never).
print_progress(iteration, total, sink) ==
    [raised |-> iteration = sink, report |-> <<iteration, total>>]

(***************************************************************************)
(* Tables (pandas DataFrames) live in a heap of objects: a reference is an *)
(* object id, a table the sequence of its rows.                            *)
(***************************************************************************)
\* df.copy(deep=True): a new object with the same rows.
copy_shallow(h, ref) == [heap |-> h, ref |-> ref]

copy(h, ref) ==
    LET new == (CHOOSE m \in DOMAIN h : \A o \in DOMAIN h : o <= m) + 1
    IN  [heap |-> h @@ (new :> h[ref]), ref |-> new]

\* data['z'] = ref_level
set_z_skipped(h, ref, ref_level) == h

set_z(h, ref, ref_level) ==
    [h EXCEPT ![ref] = [i \in DOMAIN @ |-> [@[i] EXCEPT !.z = ref_level]]]

\* data.loc[data['z'] < ref_level, 'z'] = ref_level
raise_z(h, ref, ref_level) ==
    [h EXCEPT ![ref] = [i \in DOMAIN @ |->
        IF @[i].z < ref_level THEN [@[i] EXCEPT !.z = ref_level] ELSE @[i]]]

\* data.loc[data['z'] >= ref_level, 'z'] = ref_level
lower_z(h, ref, ref_level) ==
    [h EXCEPT ![ref] = [i \in DOMAIN @ |->
        IF @[i].z >= ref_level THEN [@[i] EXCEPT !.z = ref_level] ELSE @[i]]]

\* What is left of the heap when a method returns: the mesh's own objects.
live(h, refs) == [o \in refs |-> h[o]]

(***************************************************************************)
(* The arguments get_volume is called with.                                *)
(***************************************************************************)
Default == [type |-> "str", table |-> <<>>]

NoneArg == [type |-> "NoneType", table |-> <<>>]

DataFrame(t) == [type |-> "DataFrame", table |-> t]

(***************************************************************************)
(* The flat-volume cache, a dict from ref_level to volume.                 *)
(***************************************************************************)
\* self._flat_volume = {0.0: 0.0}
init_flat_volume == (0 :> R(0))

\* self._flat_volume[ref_level] = value
store_alone(cache, ref_level, value) == (ref_level :> value)

store(cache, ref_level, value) ==
    [k \in DOMAIN cache \cup {ref_level} |->
        IF k = ref_level THEN value ELSE cache[k]]

\* self._flat_volume[ref_level]
lookup(cache, ref_level) ==
    IF ref_level \in DOMAIN cache
    THEN [raised |-> FALSE, value |-> cache[ref_level]]
    ELSE [raised |-> TRUE, value |-> R(0)]

(***************************************************************************)
(* TriangularMesh.  Every method is an operator from the heap h, the cache *)
(* and its arguments to an outcome: the heap and cache it leaves, whether  *)
(* it raised and with what, the value returned, the progress reports made, *)
(* the number of triangulations run, the ref_levels _get_flat_volume was   *)
(* entered for, and the table its last get_volume summed.                  *)
(***************************************************************************)
Outcome(h, cache, raised, error, value, progress, triangulations, flat_computed, data_points) ==
    [heap |-> h, cache |-> cache, raised |-> raised, error |-> error,
     value |-> value, progress |-> progress,
     triangulations |-> triangulations, flat_computed |-> flat_computed,
     data_points |-> data_points]

\* if type(data_points) is not DataFrame: data_points = self.point_cloud
select_data_points_argument(stored, data_points) == data_points.table

select_data_points(stored, data_points) ==
    IF data_points.type # "DataFrame" THEN stored ELSE data_points.table

\* The loop of get_volume from facet i on: a Triangle per facet, its volume
\* added to mesh_volume, then the progress report, which may raise.
RECURSIVE volume_loop(_, _, _, _, _, _)
volume_loop(data_points, data, i, mesh_volume, progress, sink) ==
    IF i > Len(data)
    THEN [raised |-> FALSE, error |-> "", value |-> mesh_volume,
          progress |-> progress, data_points |-> data_points]
    ELSE LET A == data_points[data[i][1]]
             B == data_points[data[i][2]]
             C == data_points[data[i][3]]
             point_A == CartesianCoordinate(A.x, A.y, A.z)
             point_B == CartesianCoordinate(B.x, B.y, B.z)
             point_C == CartesianCoordinate(C.x, C.y, C.z)
             facet == Triangle(point_A, point_B, point_C)
             volume == Triangle_get_volume(facet).value
             report == print_progress(i, Len(data), sink)
         IN  IF report.raised
             THEN [raised |-> TRUE, error |-> "SinkError", value |-> R(0),
                   progress |-> Append(progress, report.report),
                   data_points |-> data_points]
             ELSE volume_loop(data_points, data, i + 1,
                              RAdd(mesh_volume, volume),
                              Append(progress, report.report), sink)

\* data = Delaunay(data_points[['x', 'y']]).simplices and the loop over it.
sum_facets(data_points, sink) ==
    volume_loop(data_points, Delaunay(data_points), 1, R(0), <<>>, sink)

\* self.get_volume(data_points); stored is the table self.point_cloud.
TriangularMesh_get_volume(stored, data_points, sink) ==
    sum_facets(select_data_points(stored, data_points), sink)

\* self._flat_volume[ref_level] = self.get_volume(data_flat), gv being what
\* get_volume did: nothing is stored when it raised.
set_flat_volume(h, cache, ref_level, gv) ==
    Outcome(h,
            IF gv.raised THEN cache ELSE store(cache, ref_level, gv.value),
            gv.raised, gv.error, R(0), gv.progress, 1, {ref_level},
            gv.data_points)

\* self._get_flat_volume(ref_level)
_get_flat_volume(h, cache, point_cloud, ref_level, sink) ==
    LET data_flat == copy(h, point_cloud)
        h1 == set_z(data_flat.heap, data_flat.ref, ref_level)
    IN  set_flat_volume(h1, cache, ref_level,
            TriangularMesh_get_volume(h1[point_cloud],
                                      DataFrame(h1[data_flat.ref]), sink))

\* if ref_level not in self._flat_volume.keys(): self._get_flat_volume(...)
ensure_flat_volume(h, cache, point_cloud, ref_level, sink) ==
    IF ref_level \notin DOMAIN cache
    THEN _get_flat_volume(h, cache, point_cloud, ref_level, sink)
    ELSE Outcome(h, cache, FALSE, "", R(0), <<>>, 0, {}, <<>>)

\* return self.get_volume(data_cut) - flat_volume, and
\* return flat_volume - self.get_volume(data_fill); fl is what filling the
\* cache did and gv what get_volume did.
volume_difference(fl, flat_volume, gv, is_cut) ==
    Outcome(fl.heap, fl.cache, gv.raised, gv.error,
            IF gv.raised THEN R(0)
            ELSE IF is_cut THEN RSub(gv.value, flat_volume)
            ELSE RSub(flat_volume, gv.value),
            fl.progress \o gv.progress, fl.triangulations + 1,
            fl.flat_computed, gv.data_points)

\* flat_volume = self._flat_volume[ref_level] and the return statement, once
\* the cache was filled if needed (fl).
read_flat_volume(fl, point_cloud, data, ref_level, sink, is_cut) ==
    IF fl.raised THEN fl
    ELSE IF lookup(fl.cache, ref_level).raised
    THEN Outcome(fl.heap, fl.cache, TRUE, "KeyError", R(0), fl.progress,
                 fl.triangulations, fl.flat_computed, <<>>)
    ELSE volume_difference(fl, lookup(fl.cache, ref_level).value,
             TriangularMesh_get_volume(fl.heap[point_cloud],
                                       DataFrame(fl.heap[data]), sink),
             is_cut)

\* The rest of get_cut_volume / get_fill_volume once data is prepared.
cut_fill_tail(h, cache, point_cloud, data, ref_level, sink, is_cut) ==
    read_flat_volume(
        ensure_flat_volume(h, cache, point_cloud, ref_level, sink[1]),
        point_cloud, data, ref_level, sink[2], is_cut)

\* self.get_cut_volume(ref_level)
get_cut_volume(h, cache, point_cloud, ref_level, sink) ==
    LET data_cut == copy(h, point_cloud)
        h1 == raise_z(data_cut.heap, data_cut.ref, ref_level)
    IN  cut_fill_tail(h1, cache, point_cloud, data_cut.ref, ref_level, sink,
                      TRUE)

\* if ref_level == 0.0: return 0.0
quick_exit_never(ref_level) == FALSE

quick_exit(ref_level) == ref_level = 0

\* self.get_fill_volume(ref_level)
get_fill_volume(h, cache, point_cloud, ref_level, sink) ==
    IF quick_exit(ref_level)
    THEN Outcome(h, cache, FALSE, "", R(0), <<>>, 0, {}, <<>>)
    ELSE LET data_fill == copy(h, point_cloud)
             h1 == lower_z(data_fill.heap, data_fill.ref, ref_level)
         IN  cut_fill_tail(h1, cache, point_cloud, data_fill.ref, ref_level,
                           sink, FALSE)

\* self.get_volume_curves(step, swell_factor)
get_volume_curves(h, cache, step, swell_factor) ==
    Outcome(h, cache, FALSE, "", R(1), <<>>, 0, {}, <<>>)

(***************************************************************************)
(* State.                                                                  *)
(***************************************************************************)
VARIABLES
    heap,             \* the tables alive between calls, by object id
    point_cloud,      \* self.point_cloud, a reference into the heap
    _flat_volume,      \* self._flat_volume
    call,             \* the last call made on the mesh and its outcome
    flat_started,     \* the ref_levels _get_flat_volume was ever entered for
    cloud0,           \* the rows of the point cloud at construction
    triangle_points,  \* the three points Triangles are constructed from
    tri,              \* the Triangle object under test
    tri_result,       \* <<>> or <<r>>, r what tri.get_volume() returned
    tri_seen          \* every volume get_volume returned for these points

mesh_vars == <<heap, point_cloud, _flat_volume, call, flat_started, cloud0>>

tri_vars == <<triangle_points, tri, tri_result, tri_seen>>

vars == <<heap, point_cloud, _flat_volume, call, flat_started, cloud0,
          triangle_points, tri, tri_result, tri_seen>>

(***************************************************************************)
(* The inputs.                                                             *)
(***************************************************************************)
RefLevels == 0..MaxRef

\* A surveyed strip of n rows: row i lies at distance i - 1 along the strip,
\* the rows alternate between one edge of the strip, at height a, and the
\* other edge, at height b.  The strip runs along the x axis or the y axis.
Strip(n, a, b, along_x) ==
    [i \in 1..n |->
        CartesianCoordinate(IF along_x THEN i - 1 ELSE (i - 1) % 2,
                            IF along_x THEN (i - 1) % 2 ELSE i - 1,
                            IF (i - 1) % 2 = 0 THEN a ELSE b)]

\* The heights reach one above the highest reference level, so that a row
\* can lie below, at and above a level.
Clouds ==
    {Strip(n, a, b, along_x) :
        n \in 3..MaxPoints, a \in 0..(MaxRef + 1), b \in 0..(MaxRef + 1),
        along_x \in BOOLEAN}

\* The tables a caller passes to get_volume: the cloud levelled at a
\* ref_level, and its first three rows.
ArgTables(stored) ==
    {[i \in DOMAIN stored |-> [stored[i] EXCEPT !.z = r]] : r \in RefLevels}
    \cup {SubSeq(stored, 1, 3)}

Arguments(stored) ==
    {Default, NoneArg} \cup {DataFrame(t) : t \in ArgTables(stored)}

\* The behaviours of the progress sink over a call that sums n facets once:
\* it never raises (0) or raises at report k.
Sinks(n) == 0..n

\* ... and over a call that may sum them twice, for the flat volume and then
\* for the volume asked: the first report that raises ends the call.
Sinks2(n) ==
    {<<0, 0>>} \cup {<<k, 0>> : k \in 1..n} \cup {<<0, k>> : k \in 1..n}

\* No call is in progress: the mesh is constructed or the last call's result
\* has been taken.
NoCall ==
    [op |-> "", ref_level |-> 0, data_points |-> Default,
     raised |-> FALSE, error |-> "", value |-> R(0),
     progress |-> <<>>, triangulations |-> 0, flat_computed |-> {},
     summed |-> <<>>, retriggered |-> FALSE]

Called(op, ref_level, data_points, out) ==
    [op |-> op, ref_level |-> ref_level, data_points |-> data_points,
     raised |-> out.raised, error |-> out.error,
     value |-> out.value, progress |-> out.progress,
     triangulations |-> out.triangulations,
     flat_computed |-> out.flat_computed, summed |-> out.data_points,
     retriggered |-> out.flat_computed \cap flat_started # {}]

(***************************************************************************)
(* TriangularMesh.__init__(point_cloud) and the calls on the mesh.         *)
(***************************************************************************)
NoTriangle ==
    /\ triangle_points = <<>>
    /\ tri = <<>>
    /\ tri_result = <<>>
    /\ tri_seen = {}

Init ==
    /\ cloud0 \in Clouds
    /\ heap = (1 :> cloud0)
    /\ point_cloud = 1
    /\ _flat_volume = init_flat_volume
    /\ call = NoCall
    /\ flat_started = {}
    /\ NoTriangle

\* What a call leaves behind: its locals are dropped when it returns.
Returned(op, ref_level, data_points, out) ==
    /\ call = NoCall
    /\ heap' = live(out.heap, {point_cloud})
    /\ _flat_volume' = out.cache
    /\ call' = Called(op, ref_level, data_points, out)
    /\ flat_started' = flat_started \cup out.flat_computed
    /\ UNCHANGED <<point_cloud, cloud0, tri_vars>>

Facets(table) == Len(Delaunay(table))

\* A call of get_volume by the user of the mesh; gv is what it did.
get_volume_outcome(h, cache, gv) ==
    Outcome(h, cache, gv.raised, gv.error, gv.value, gv.progress, 1, {},
            gv.data_points)

GetVolume(data_points, sink) ==
    Returned("get_volume", 0, data_points,
             get_volume_outcome(heap, _flat_volume,
                 TriangularMesh_get_volume(heap[point_cloud], data_points,
                                           sink)))

GetCutVolume(ref_level, sink) ==
    Returned("get_cut_volume", ref_level, Default,
             get_cut_volume(heap, _flat_volume, point_cloud, ref_level, sink))

GetFillVolume(ref_level, sink) ==
    Returned("get_fill_volume", ref_level, Default,
             get_fill_volume(heap, _flat_volume, point_cloud, ref_level, sink))

GetFlatVolume(ref_level, sink) ==
    Returned("_get_flat_volume", ref_level, Default,
             _get_flat_volume(heap, _flat_volume, point_cloud, ref_level, sink))

GetVolumeCurves ==
    Returned("get_volume_curves", 0, Default,
             get_volume_curves(heap, _flat_volume, 1, 1))

\* The caller takes the result (or the exception) of the call.
Return ==
    /\ call # NoCall
    /\ call' = NoCall
    /\ UNCHANGED <<heap, point_cloud, _flat_volume, flat_started, cloud0,
                   tri_vars>>

\* The calls a user of the mesh makes.
Next ==
    \/ \E a \in Arguments(heap[point_cloud]) :
           \E s \in Sinks(Facets(select_data_points(heap[point_cloud], a))) :
               GetVolume(a, s)
    \/ \E r \in RefLevels, s \in Sinks2(Facets(heap[point_cloud])) :
           GetCutVolume(r, s)
    \/ \E r \in RefLevels, s \in Sinks2(Facets(heap[point_cloud])) :
           GetFillVolume(r, s)
    \/ GetVolumeCurves
    \/ Return

Spec == Init /\ [][Next]_vars

\* ... and with the internal _get_flat_volume called directly as well.
FullNext ==
    \/ Next
    \/ \E r \in RefLevels, s \in Sinks(Facets(heap[point_cloud])) :
           GetFlatVolume(r, s)

FullSpec == Init /\ [][FullNext]_vars

(***************************************************************************)
(* The Triangle specification: a Triangle is constructed from the three    *)
(* points in some order and asked for its volume.                          *)
(***************************************************************************)
TriPoints ==
    {CartesianCoordinate(x, y, z) : x \in 0..MaxX, y \in 0..MaxY, z \in -1..MaxZ}

\* A key that orders points, to draw each set of three points once.
PointKey(p) == (p.x * (MaxY + 1) + p.y) * (MaxZ + 2) + (p.z + 1)

Permutations3 == {p \in [1..3 -> 1..3] : \A i, j \in 1..3 : p[i] = p[j] => i = j}

NoMesh ==
    /\ cloud0 = <<>>
    /\ heap = <<>>
    /\ point_cloud = 0
    /\ _flat_volume = init_flat_volume
    /\ call = NoCall
    /\ flat_started = {}

TriInit ==
    /\ triangle_points \in
           {<<a, b, c>> : a \in TriPoints, b \in TriPoints, c \in TriPoints}
    /\ PointKey(triangle_points[1]) <= PointKey(triangle_points[2])
    /\ PointKey(triangle_points[2]) <= PointKey(triangle_points[3])
    /\ tri = Triangle(triangle_points[1], triangle_points[2],
                      triangle_points[3])
    /\ tri_result = <<>>
    /\ tri_seen = {}
    /\ NoMesh

\* Triangle(point_A, point_B, point_C) over a reordering of the points.
NewTriangle(p) ==
    /\ tri_result # <<>>
    /\ tri' = Triangle(triangle_points[p[1]], triangle_points[p[2]],
                       triangle_points[p[3]])
    /\ tri_result' = <<>>
    /\ UNCHANGED <<triangle_points, tri_seen, mesh_vars>>

\* tri.get_volume()
TriangleGetVolume ==
    /\ tri_result = <<>>
    /\ tri_result' = <<Triangle_get_volume(tri)>>
    /\ tri_seen' = tri_seen \cup {tri_result'[1].value}
    /\ UNCHANGED <<triangle_points, tri, mesh_vars>>

TriNext ==
    \/ \E p \in Permutations3 : NewTriangle(p)
    \/ TriangleGetVolume

TriSpec == TriInit /\ [][TriNext]_vars

(***************************************************************************)
(* The properties.                                                         *)
(***************************************************************************)
Degenerate(t) == normal_vector(t)[3] = 0

CutOrFill == {"get_cut_volume", "get_fill_volume"}

\* C1: over any sequence of get_cut_volume and get_fill_volume calls the
\* flat-volume computation is entered at most once for a ref_level: no call
\* enters it for a level an earlier call had entered it for.
C1_FlatVolumeComputedOnce == ~call.retriggered

\* C2: the cache always holds the key 0.0 with the value 0.0, whatever calls
\* were made, _get_flat_volume among them, and whether they returned or raised.
C2_CacheHoldsZero == 0 \in DOMAIN _flat_volume /\ _flat_volume[0] = R(0)

C2_Witness ==
    /\ call.op = "_get_flat_volume" /\ call.ref_level = 0 /\ ~call.raised
    /\ \E i \in DOMAIN cloud0 : cloud0[i].z # 0
    /\ Cardinality(DOMAIN _flat_volume) > 1

\* C3: the volume of a degenerate triangle (zero z-component of the normal)
\* is not a value: get_volume fails with an error.
C3_DegenerateRaises ==
    (tri_result # <<>> /\ Degenerate(tri)) => tri_result[1].raised

\* C4: get_fill_volume(0.0) returns 0.0 and does nothing else: no
\* triangulation, no flat-volume computation, no progress report, the cache
\* and the point cloud as they were.
C4_FillAtZero ==
    [][(call'.op = "get_fill_volume" /\ call'.ref_level = 0)
        => /\ ~call'.raised
           /\ call'.value = R(0)
           /\ call'.triangulations = 0
           /\ call'.flat_computed = {}
           /\ call'.progress = <<>>
           /\ _flat_volume' = _flat_volume
           /\ heap' = heap]_vars

C4_Witness ==
    /\ call.op = "get_fill_volume" /\ call.ref_level = 0
    /\ Cardinality(DOMAIN _flat_volume) > 1

C6_DataPointsFallback ==
    call.op = "get_volume" =>
        IF call.data_points.type # "DataFrame"
        THEN LET own == sum_facets(heap[point_cloud],
                                   IF call.raised THEN Len(call.progress)
                                   ELSE 0)
             IN  /\ call.summed = heap[point_cloud]
                 /\ call.raised = own.raised
                 /\ call.raised => call.error = "SinkError"
                 /\ call.progress = own.progress
                 /\ call.value = own.value
        ELSE call.summed = call.data_points.table

C6_Witness ==
    /\ call.op = "get_volume" /\ call.data_points = NoneArg
    /\ ~call.raised
    /\ Len(call.progress) >= 2
    /\ call.value # R(0)

\* C7: a failure of the progress sink does not propagate: no call ends with
\* the exception the sink raised.
C7_SinkFailureIsolated == ~(call.raised /\ call.error = "SinkError")

\* C8: every ordering of three non-degenerate points gives the same volume.
C8_PermutationInvariant ==
    ~Degenerate(tri) => Cardinality(tri_seen) <= 1

C8_Witness ==
    /\ tri_result # <<>>
    /\ ~Degenerate(tri)
    /\ tri # Triangle(triangle_points[1], triangle_points[2],
                      triangle_points[3])
    /\ tri.point_A.x = tri.point_B.x
    /\ tri_result[1].value # R(0)

\* C9: a line through two points of equal x has no equation (None), and a
\* region of get_volume bounded by such a line contributes 0 without an
\* error: the volume is the absolute value of the other region's integral.
C9_VerticalBoundary ==
    /\ \A i, j \in DOMAIN triangle_points :
           triangle_points[i].x = triangle_points[j].x
           => get_line_equation(Line2D(triangle_points[i],
                                       triangle_points[j])) = None
    /\ tri_result # <<>> =>
           LET r == tri_result[1]
           IN  /\ ~r.raised
               /\ r.points[1].x = r.points[2].x
                  => /\ r.lineAB = None
                     /\ r.volume1 = R(0)
                     /\ r.value = RAbs(r.volume2)
               /\ r.points[2].x = r.points[3].x
                  => /\ r.lineBC = None
                     /\ r.volume2 = R(0)
                     /\ r.value = RAbs(r.volume1)

C9_Witness ==
    /\ tri_result # <<>>
    /\ ~Degenerate(tri)
    /\ tri_result[1].points[1].x = tri_result[1].points[2].x
    /\ tri_result[1].volume1 = R(0)
    /\ tri_result[1].value # R(0)

\* C10: no call changes the stored point cloud, so get_volume() keeps
\* returning the volume of the cloud as it was at construction.
C10_PointCloudUntouched ==
    /\ heap[point_cloud] = cloud0
    /\ (call.op = "get_volume" /\ call.data_points.type # "DataFrame"
        /\ ~call.raised)
       => call.value = sum_facets(cloud0, 0).value

C10_Witness ==
    /\ call.op = "get_volume" /\ call.data_points = Default /\ ~call.raised
    /\ \E r \in flat_started :
           /\ \E i \in DOMAIN cloud0 : cloud0[i].z < r
           /\ \E i \in DOMAIN cloud0 : cloud0[i].z > r

====
